---- MODULE Spec2Model ----
(***************************************************************************)
(* OCPP-1.6J WebSocket gateway (targetimports/websocketocpp).              *)
(*                                                                         *)
(* The repository holds several complete gateway programs.  Each one is a  *)
(* "build" of this model:                                                  *)
(*   "p000"  src/unnamed/part_000 lines 1-189   (backend-consulting         *)
(*           gateway with the pendingRequests correlation table)           *)
(*   "p003"  src/unnamed/part_003 lines 177-588 (immediate-reply gateway    *)
(*           with clients registry, safeSend, NotImplemented and the       *)
(*           optional ping watchdog)                                       *)
(*   "node"  src/server.js lines 1-266          (stateless immediate reply) *)
(*   "deno"  src/server.js lines 268-844        (Deno gateway whose replies *)
(*           are computed through the backend SDK)                         *)
(* A behaviour picks one build in Init and then runs only its handlers.    *)
(***************************************************************************)
EXTENDS Integers, Sequences, FiniteSets, TLC

VARIABLES
    build,            \* which program of the repository is running
    nextWs,           \* number of WebSocket objects created so far
    wsId,             \* ws -> identity captured by the connection handler
    readyState,       \* ws -> "NONE" | "OPEN" | "CLOSING" | "CLOSED"
    accepted,         \* ws -> TRUE when the message/close handlers were registered
    clients,          \* Map identity -> ws (0 = no entry): clients / activeConnections
    pendingRequests,  \* Map messageId -> pending record (NoPending = no entry)
    sent,             \* ws -> sequence of texts written to the connection
    tasks,            \* async handlers suspended at an await on the backend
    steps,            \* number of steps taken so far
    reqs,             \* history: the Calls the gateway originated, in order
    crashed,          \* the process was ended by an unhandled rejection
    ocppLog,          \* backend table OcppLog: the outgoing command logs
    now,              \* the clock Date.now() reads
    enablePing,       \* ENABLE_PING: the ping watchdog of build "p003" runs
    isAlive,          \* ws -> ws.isAlive
    quiet,            \* history: ws -> watchdog ticks since a frame last arrived
    deliveries,       \* clock reading -> number of fetches to the backend that
                      \* started at it, that nothing awaits and that are in flight
    last,             \* history: the step that was taken last
    codec,            \* the message under encode / decode, and how far it got
    requireSubprotocol, \* REQUIRE_OCPP_SUBPROTOCOL of build "node"
    handshake,        \* ws -> the subprotocols the client offered and ws.protocol
    base44Timers,     \* Map identity -> interval (named by the ws that set it; 0 = no entry)
    intervals,        \* the heartbeat intervals that are running
    reported,         \* identity -> status of the last status message started for it
    pinged,           \* history: ws -> a ping went out to it and no pong came back since
    apiKey            \* API_KEY of builds "p000" and "p003" ("" = not set)

vars == <<build, nextWs, wsId, readyState, accepted, clients,
          pendingRequests, sent, tasks, steps, reqs, crashed, ocppLog, now,
          enablePing, isAlive, quiet, deliveries, last, codec,
          requireSubprotocol, handshake, base44Timers, intervals, reported, pinged,
          apiKey>>

----------------------------------------------------------------------------
(* Bounds of the model. *)

MaxConn == 2      \* WebSocket connections made in one behaviour
MaxSteps == 5     \* steps of the gateway and its environment in one behaviour
MaxNow == 2       \* clock ticks in one behaviour
RequestTimeout == 1   \* clock ticks a tracked Call may wait for its reply
DeliveryTimeout == 1  \* clock ticks after which a delivery counts as cut off
                      \* (BASE44_TIMEOUT_MS in the build that has the timer)

----------------------------------------------------------------------------
(* Program constants. *)

CALL == 2
CALLRESULT == 3
CALLERROR == 4
BOOT_INTERVAL_SEC == 30
NodeBootInterval == 300
DenoBootInterval == 30

Builds == {"p000", "p003", "node", "deno", "codec"}
Ids == {"CP-001", "CP-002"}
Serials == Ids \cup {"UNKNOWN"}
Conns == 1..MaxConn
Protocols == {"ocpp1.6", ""}

\* the lists of subprotocols a client offers (Sec-WebSocket-Protocol)
Offers == {<<>>, <<"ocpp1.6">>, <<"ocpp2.0.1", "ocpp1.6">>, <<"ocpp2.0.1">>}

NoHandshake == [offered |-> <<>>, protocol |-> "none"]

----------------------------------------------------------------------------
(* JSON values.  A value is tagged by its kind, so that values of           *)
(* different kinds can be compared.                                         *)

Num(n) == [num |-> n]
Str(s) == [str |-> s]
Obj(r) == [obj |-> r]
Arr(s) == [arr |-> s]
Null == [null |-> TRUE]
Undefined == [undef |-> TRUE]
EmptyObj == Obj(<<>>)

IsArray(v) == "arr" \in DOMAIN v

\* msg[i] read with a 1-based index
AtOneBased(v, i) == IF 1 <= i /\ i <= Len(v.arr) THEN v.arr[i] ELSE Undefined

\* msg[i] of a JavaScript array (0-based); undefined past the end
At(v, i) == IF i + 1 <= Len(v.arr) THEN v.arr[i + 1] ELSE Undefined

\* a ?? d that lets null and undefined through
NullishKept(a, d) == a

\* a ?? d
Nullish(a, d) == IF a = Undefined \/ a = Null THEN d ELSE a

\* a || d for the values used here: undefined, null, "" and 0 are falsy
OrElse(a, d) == IF a \in {Undefined, Null, Str(""), Num(0)} THEN d ELSE a

\* JSON.stringify: undefined array elements are written as null
JSONstringify(v) ==
    [json |-> IF IsArray(v)
              THEN Arr([i \in 1..Len(v.arr) |->
                          IF v.arr[i] = Undefined THEN Null ELSE v.arr[i]])
              ELSE v]

BadText == [bad |-> "not json"]

\* JSON.parse inside try/catch
JSONparse(t) ==
    IF "json" \in DOMAIN t THEN [ok |-> TRUE, value |-> t.json]
    ELSE [ok |-> FALSE, value |-> Undefined]

\* new Date().toISOString() when the clock reads t
nowIso(t) == Str(ToString(t))

----------------------------------------------------------------------------
(* Message ids. *)

\* uid(): Math.random().toString(16).slice(2) + Date.now().toString(16);
\* r is the random draw and t the clock reading (the time part has a fixed
\* width in the program; the "-" keeps the two parts apart here)
uid(r, t) == ToString(r) \o "-" \o ToString(t)

\* values Math.random() draws, and the clock readings given to the steps
\* of the builds that keep no reading
Rands == {0, 1}
Times == {0}
UidValues == {ToString(r) \o "-" \o ToString(t) : r \in Rands, t \in 0..MaxNow}

NoPending == [chargePointId |-> "none", action |-> Undefined, createdAt |-> -1]

----------------------------------------------------------------------------
(* Inputs. *)

\* actions a charge point calls
CpActions == {"BootNotification", "FooBarUnknownAction"}

\* texts a charge point sends
CpCalls ==
    {JSONstringify(Arr(<<Num(CALL), Str("abc"), Str("BootNotification"), EmptyObj>>)),
     JSONstringify(Arr(<<Num(CALL), Str("def"), Str("FooBarUnknownAction"), EmptyObj>>))}

\* replies carry the id of a Call the gateway has sent to some charge
\* point, or an id no Call ever had
ReplyIds == {reqs[i].id : i \in DOMAIN reqs} \cup {"stray"}

CpReplies ==
    {JSONstringify(Arr(<<Num(CALLRESULT), Str(m), EmptyObj>>)) : m \in ReplyIds}
    \cup
    {JSONstringify(Arr(<<Num(CALLERROR), Str(m), Str("InternalError"), Str(""), EmptyObj>>)) :
        m \in ReplyIds \ {"stray"}}

CpGarbage ==
    {BadText,
     JSONstringify(Arr(<<Num(CALL), Str("abc")>>)),
     JSONstringify(Arr(<<Num(9), Str("abc"), EmptyObj>>))}

InTexts == CpCalls \cup CpReplies \cup CpGarbage

\* values of API_KEY (process.env.API_KEY || ""), and of the x-api-key
\* header of a submission (undefined when the header is absent)
ApiKeys == {Str(""), Str("secret")}
Headers == {Str("secret"), Str("wrong"), Undefined}

\* the header as a caller that has a key sends it: the key or another one
PresentHeaders == Headers \ {Undefined}

\* a check of the key that lets every submission in
AuthorizedAlways(key, header) == TRUE

\* the negation of: API_KEY && req.headers["x-api-key"] !== API_KEY
Authorized(key, header) == key = Str("") \/ header = key

\* commands an operator or the backend asks the gateway to send
CmdActions == {Str("Reset")}
CmdPayloads == {Undefined}

----------------------------------------------------------------------------
(* History records. *)

NoText == [none |-> TRUE]

\* the step taken last: its operation, the connection it ran on, the text
\* it received, the texts it wrote to that connection, the number of
\* messages it handed to backend forwarding, the message id it allocated
\* or looked up, the pending record it removed, whether the id it
\* allocated was already in the table, and the connections it terminated
Ev(op, c) ==
    [op |-> op, ws |-> c, text |-> NoText, wrote |-> <<>>, fwd |-> 0,
     key |-> Undefined, removed |-> NoPending, collided |-> FALSE, evicted |-> {},
     header |-> Undefined]

\* one gateway-originated Call: the connection and identity it was sent
\* for, its message id, whether it was put in pendingRequests, how many
\* times it was completed, and whether its frame was written
Req(c, cp, m, tracked, written) ==
    [ws |-> c, cp |-> cp, id |-> m, tracked |-> tracked, done |-> 0,
     written |-> written]

----------------------------------------------------------------------------
(* The WebSocket object. *)

\* ws.send(text) on an open socket appends to the connection
Write(c, texts) == [sent EXCEPT ![c] = sent[c] \o texts]

Open(c) == c \in Conns /\ readyState[c] = "OPEN"

\* !ws || ws.readyState !== ws.OPEN, for the registry entry c of an identity
Offline(c) == c = 0 \/ ~Open(c)

\* ws.send(text) for each text, on a socket in any state: what reaches the
\* connection (the library sends nothing on a socket that is not open)
wsSendAnyState(c, texts) == texts

wsSend(c, texts) == IF Open(c) THEN texts ELSE <<>>

\* the peer's close frame arrives on an open socket of part_000: the socket
\* is CLOSING until its close event runs, and a handler suspended on the
\* backend can resume in between
CloseFrameArrives(c) ==
    /\ build = "p000" /\ ~crashed
    /\ steps < MaxSteps
    /\ steps' = steps + 1
    /\ Open(c) /\ accepted[c]
    /\ readyState' = [readyState EXCEPT ![c] = "CLOSING"]
    /\ last' = Ev("closing", c)
    /\ UNCHANGED <<build, apiKey, codec, requireSubprotocol, handshake, base44Timers, intervals, reported, pinged, enablePing, isAlive, quiet, deliveries, ocppLog, now, nextWs,
                   wsId, accepted, clients, pendingRequests, sent, tasks, reqs, crashed>>

\* the outgoing command logs the backend holds when the gateway starts, in
\* the order they were queued: none, one command an operator queued for
\* CP-001, or two
QueuedAtStart ==
    {<<>>,
     <<[charger_id |-> "CP-001", message_type |-> Str("Reset"), payload |-> Undefined,
        status |-> "queued"]>>,
     <<[charger_id |-> "CP-001", message_type |-> Str("Reset"), payload |-> Undefined,
        status |-> "queued"],
       [charger_id |-> "CP-001", message_type |-> Str("UnlockConnector"),
        payload |-> Obj([connectorId |-> Num(1)]), status |-> "queued"]>>}

----------------------------------------------------------------------------
(* Encoding and decoding of OCPP messages: src/server.js lines 39-53 and   *)
(* 174-254.                                                                 *)

CodecIds == {Str("abc"), Str("def")}
CodecActions == {Str("BootNotification"), Str("Heartbeat")}
CodecPayloads == {EmptyObj, Obj([status |-> Str("Accepted")]), Obj([connectorId |-> Num(1)])}
CodecErrorCodes == {Str("InternalError"), Str("NotImplemented")}
CodecErrorDescriptions == {Str(""), Str("Unhandled server error")}

\* the valid Calls, CallResults and CallErrors over these sets
Messages ==
    {[kind |-> "Call", messageId |-> i, action |-> a, payload |-> p] :
        i \in CodecIds, a \in CodecActions, p \in CodecPayloads}
    \cup
    {[kind |-> "CallResult", messageId |-> i, payload |-> p] :
        i \in CodecIds, p \in CodecPayloads}
    \cup
    {[kind |-> "CallError", messageId |-> i, errorCode |-> c, errorDescription |-> d,
      errorDetails |-> p] :
        i \in CodecIds, c \in CodecErrorCodes, d \in CodecErrorDescriptions,
        p \in CodecPayloads}

NoCodec == [stage |-> "none"]
Built(m) == [stage |-> "built", m |-> m]

\* callError(messageId, errorCode, errorDescription, errorDetails = {})
callError(messageId, errorCode, errorDescription, errorDetails) ==
    Arr(<<Num(CALLERROR), messageId, errorCode, errorDescription,
          IF errorDetails = Undefined THEN EmptyObj ELSE errorDetails>>)

\* the array a message is sent as, and wsSendJson's JSON.stringify of it
encode(m) ==
    JSONstringify(
        CASE m.kind = "Call" -> Arr(<<Num(CALL), m.messageId, m.action, m.payload>>)
          [] m.kind = "CallResult" -> Arr(<<Num(CALLRESULT), m.messageId, m.payload>>)
          [] m.kind = "CallError" ->
                callError(m.messageId, m.errorCode, m.errorDescription, m.errorDetails))

Rejected == [kind |-> "rejected"]

\* what ws.on("message") takes out of a text: safeJsonParse, the array and
\* length test, and the fields of the branch of msg[0]
decode(text) ==
    LET parsed == JSONparse(text)
        msg == parsed.value
    IN  IF ~parsed.ok THEN Rejected
        ELSE IF ~IsArray(msg) \/ Len(msg.arr) < 3 THEN Rejected
        ELSE IF At(msg, 0) = Num(CALL)
        THEN [kind |-> "Call", messageId |-> At(msg, 1), action |-> At(msg, 2),
              payload |-> Nullish(At(msg, 3), EmptyObj)]
        ELSE IF At(msg, 0) = Num(CALLRESULT)
        THEN [kind |-> "CallResult", messageId |-> At(msg, 1),
              payload |-> Nullish(At(msg, 2), EmptyObj)]
        ELSE IF At(msg, 0) = Num(CALLERROR)
        THEN [kind |-> "CallError", messageId |-> At(msg, 1), errorCode |-> At(msg, 2),
              errorDescription |-> At(msg, 3),
              errorDetails |-> Nullish(At(msg, 4), EmptyObj)]
        ELSE Rejected

\* what the message handler of part_003 takes out of a text: JSON.parse in
\* try/catch, the array and length test, and the fields of the CALL branch;
\* a CallResult or CallError is passed on as it came
P003decode(text) ==
    LET parsed == JSONparse(text)
        msg == parsed.value
    IN  IF ~parsed.ok THEN Rejected
        ELSE IF ~IsArray(msg) \/ Len(msg.arr) < 2 THEN Rejected
        ELSE IF At(msg, 0) = Num(CALL)
        THEN [kind |-> "Call", messageId |-> At(msg, 1), action |-> At(msg, 2),
              payload |-> Nullish(At(msg, 3), EmptyObj)]
        ELSE IF At(msg, 0) \in {Num(CALLRESULT), Num(CALLERROR)}
        THEN [kind |-> "Reply", raw |-> msg]
        ELSE Rejected

\* frames as charge points send them: with the optional last element left
\* out or null, complete, too short, and not JSON
Frames ==
    {JSONstringify(Arr(<<Num(CALL), i, a>>)) : i \in CodecIds, a \in CodecActions}
    \cup
    {JSONstringify(Arr(<<Num(CALL), i, a, p>>)) :
        i \in CodecIds, a \in CodecActions, p \in {Null, Obj([connectorId |-> Num(1)])}}
    \cup
    {JSONstringify(Arr(<<Num(CALLERROR), i, c, d>>)) :
        i \in CodecIds, c \in CodecErrorCodes, d \in CodecErrorDescriptions}
    \cup
    {JSONstringify(Arr(<<Num(CALLERROR), i, Str("InternalError"), Str(""), p>>)) :
        i \in CodecIds, p \in {Null, Obj([connectorId |-> Num(1)])}}
    \cup
    {JSONstringify(Arr(<<Num(CALL), i>>)) : i \in CodecIds}
    \cup
    {BadText}

Received(text) == [stage |-> "received", text |-> text]

----------------------------------------------------------------------------
(* Initial state. *)

Init ==
    /\ build \in Builds
    /\ nextWs = 0
    /\ wsId = [c \in Conns |-> "none"]
    /\ readyState = [c \in Conns |-> "NONE"]
    /\ accepted = [c \in Conns |-> FALSE]
    /\ clients = [s \in Serials |-> 0]
    /\ pendingRequests = [u \in UidValues |-> NoPending]
    /\ sent = [c \in Conns |-> <<>>]
    /\ tasks = {}
    /\ steps = 0
    /\ reqs = <<>>
    /\ crashed = FALSE
    /\ now = 0
    /\ enablePing \in IF build = "p003" THEN BOOLEAN ELSE {FALSE}
    /\ isAlive = [c \in Conns |-> FALSE]
    /\ quiet = [c \in Conns |-> 0]
    /\ deliveries = [t \in 0..MaxNow |-> 0]
    /\ ocppLog \in IF build = "deno" THEN QueuedAtStart ELSE {<<>>}
    /\ last = Ev("init", 0)
    /\ codec \in IF build = "codec"
                 THEN {Built(m) : m \in Messages} \cup {Received(x) : x \in Frames}
                 ELSE {NoCodec}
    /\ requireSubprotocol \in IF build = "node" THEN BOOLEAN ELSE {FALSE}
    /\ handshake = [c \in Conns |-> NoHandshake]
    /\ base44Timers = [s \in Serials |-> 0]
    /\ intervals = {}
    /\ pinged = [c \in Conns |-> FALSE]
    /\ apiKey \in IF build \in {"p000", "p003"} THEN ApiKeys ELSE {Str("")}
    /\ reported = [s \in Serials |-> "none"]

----------------------------------------------------------------------------
(* Build "p003": src/unnamed/part_003 lines 177-588. *)

\* `${action}` in a template string
Template(v) ==
    IF "str" \in DOMAIN v THEN v.str
    ELSE IF v = Undefined THEN "undefined"
    ELSE IF v = Null THEN "null"
    ELSE "[object]"

\* the action when it is a string, "" otherwise (a switch on a non-string
\* takes the default branch)
ActionName(v) == IF "str" \in DOMAIN v THEN v.str ELSE ""

P003buildImmediateCallResult(action, t) ==
    CASE action = "BootNotification" ->
            Obj([status |-> Str("Accepted"), currentTime |-> nowIso(t),
                 interval |-> Num(BOOT_INTERVAL_SEC)])
      [] action = "Heartbeat" -> Obj([currentTime |-> nowIso(t)])
      [] action = "StatusNotification" -> EmptyObj
      [] action = "Authorize" -> Obj([idTagInfo |-> Obj([status |-> Str("Accepted")])])
      [] action = "StartTransaction" ->
            Obj([transactionId |-> Num(t),
                 idTagInfo |-> Obj([status |-> Str("Accepted")])])
      [] action = "StopTransaction" -> Obj([idTagInfo |-> Obj([status |-> Str("Accepted")])])
      [] action = "MeterValues" -> EmptyObj
      [] action = "DataTransfer" -> Obj([status |-> Str("Accepted"), data |-> Str("")])
      [] action \in {"DiagnosticsStatusNotification", "FirmwareStatusNotification"} -> EmptyObj
      [] OTHER -> Null

\* safeSend(ws, arr): the texts it writes: none unless the socket is open,
\* and none when ws.send throws into its catch
safeSend(c, arr, thrown) ==
    IF Open(c) /\ ~thrown THEN <<JSONstringify(arr)>> ELSE <<>>

\* a CALL branch that sends a CallResult and a CallError for the same Call
P003ReplyBoth(c, msg, t) ==
    safeSend(c, Arr(<<Num(CALLRESULT), At(msg, 1), EmptyObj>>), FALSE)
    \o safeSend(c, Arr(<<Num(CALLERROR), At(msg, 1), Str("NotImplemented"), Str(""),
                         EmptyObj>>), FALSE)

\* the reply of the CALL branch of ws.on("message"); its ws.send is taken
\* to succeed on an open socket
P003Reply(c, msg, t) ==
    LET messageId == At(msg, 1)
        action == At(msg, 2)
        respPayload == P003buildImmediateCallResult(ActionName(action), t)
    IN  IF respPayload = Null
        THEN safeSend(c, Arr(<<Num(CALLERROR), messageId, Str("NotImplemented"),
                               Str("Action " \o Template(action) \o " not supported"),
                               EmptyObj>>), FALSE)
        ELSE safeSend(c, Arr(<<Num(CALLRESULT), messageId, respPayload>>), FALSE)

\* n fetches start in this step and every fetch in flight is given up
StartedAfresh(n) == [t \in 0..MaxNow |-> IF t = now THEN n ELSE 0]

\* sendToBase44 / forwardToBase44 called without await n times: n fetches
\* start in this step
Started(n) == [deliveries EXCEPT ![now] = @ + n]

\* a fetch that started at clock reading t settles
Settled(t) == [deliveries EXCEPT ![t] = @ - 1]

\* the clock readings at which a fetch in flight started
StartTimes == {t \in 0..MaxNow : deliveries[t] > 0}

RECURSIVE SumTo(_, _)
SumTo(f, n) == IF n < 0 THEN 0 ELSE f[n] + SumTo(f, n - 1)

\* the number of fetches in flight
InFlight == SumTo(deliveries, MaxNow)

\* wss.on("connection"): the identity is the last path segment, negotiated
\* is ws.protocol
P003Connection(serial, negotiated) ==
    /\ build = "p003" /\ ~crashed
    /\ nextWs < MaxConn /\ steps < MaxSteps
    /\ steps' = steps + 1
    /\ LET c == nextWs + 1
           rejected == serial \in {"UNKNOWN", "monitor"} \/ negotiated # "ocpp1.6"
       IN  /\ nextWs' = c
           /\ wsId' = IF rejected THEN wsId ELSE [wsId EXCEPT ![c] = serial]
           /\ readyState' = [readyState EXCEPT ![c] = IF rejected THEN "CLOSING" ELSE "OPEN"]
           /\ accepted' = [accepted EXCEPT ![c] = ~rejected]
           /\ clients' = IF rejected THEN clients ELSE [clients EXCEPT ![serial] = c]
           /\ isAlive' = IF rejected THEN isAlive ELSE [isAlive EXCEPT ![c] = TRUE]
           /\ deliveries' = Started(IF rejected THEN 0 ELSE 1)
           /\ reported' = IF rejected THEN reported
                          ELSE [reported EXCEPT ![serial] = "Available"]
           /\ intervals' = IF rejected THEN intervals ELSE intervals \cup {c}
           /\ base44Timers' = IF rejected THEN base44Timers
                              ELSE [base44Timers EXCEPT ![serial] = c]
           /\ last' = [Ev("connection", c) EXCEPT !.fwd = IF rejected THEN 0 ELSE 1]
    /\ UNCHANGED <<build, apiKey, codec, requireSubprotocol, handshake, pinged, enablePing, quiet, ocppLog, now, pendingRequests, sent, tasks,
                   reqs, crashed>>

\* ws.on("message")
P003Message(c, text, t) ==
    /\ build = "p003" /\ ~crashed
    /\ Open(c) /\ accepted[c]
    /\ steps < MaxSteps
    /\ steps' = steps + 1
    /\ LET parsed == JSONparse(text)
           msg == parsed.value
           dropped == ~parsed.ok \/ ~IsArray(msg) \/ Len(msg.arr) < 2
           messageTypeId == At(msg, 0)
           wrote == IF ~dropped /\ messageTypeId = Num(CALL) THEN P003Reply(c, msg, t) ELSE <<>>
           fwd == IF ~dropped /\ messageTypeId \in {Num(CALL), Num(CALLRESULT), Num(CALLERROR)}
                  THEN 1 ELSE 0
       IN  /\ sent' = Write(c, wrote)
           /\ deliveries' = Started(fwd)
           /\ quiet' = [quiet EXCEPT ![c] = 0]
           /\ last' = [Ev("message", c) EXCEPT !.text = text, !.wrote = wrote, !.fwd = fwd]
    /\ UNCHANGED <<build, apiKey, codec, requireSubprotocol, handshake, base44Timers, intervals, reported, pinged, enablePing, isAlive, ocppLog, now, nextWs, wsId, readyState,
                   accepted, clients, pendingRequests, tasks, reqs, crashed>>

\* the socket closes (the peer left, the network failed, or a close begun
\* by the gateway completed); ws.on("close") runs when it was registered
P003Close(c) ==
    /\ build = "p003" /\ ~crashed
    /\ steps < MaxSteps
    /\ steps' = steps + 1
    /\ c \in Conns /\ readyState[c] \in {"OPEN", "CLOSING"}
    /\ readyState' = [readyState EXCEPT ![c] = "CLOSED"]
    /\ clients' = IF accepted[c] THEN [clients EXCEPT ![wsId[c]] = 0] ELSE clients
    /\ deliveries' = Started(IF accepted[c] THEN 1 ELSE 0)
    /\ intervals' = IF accepted[c] THEN intervals \ {base44Timers[wsId[c]]} ELSE intervals
    /\ base44Timers' = IF accepted[c] THEN [base44Timers EXCEPT ![wsId[c]] = 0]
                       ELSE base44Timers
    /\ reported' = IF accepted[c] THEN [reported EXCEPT ![wsId[c]] = "Unavailable"]
                   ELSE reported
    /\ last' = [Ev("close", c) EXCEPT !.fwd = IF accepted[c] THEN 1 ELSE 0]
    /\ UNCHANGED <<build, apiKey, codec, requireSubprotocol, handshake, pinged, enablePing, isAlive, quiet, ocppLog, now, nextWs, wsId, accepted,
                   pendingRequests, sent, tasks, reqs, crashed>>

\* POST /ocpp/send with a JSON body {serialNumber, action, payload};
\* header is its x-api-key header;
\* r and t are the random draw and the clock reading of uid()
P003Send(serial, action, payload, header, r, t, thrown) ==
    /\ build = "p003" /\ ~crashed
    /\ steps < MaxSteps
    /\ steps' = steps + 1
    /\ LET c == clients[serial]
           offline == Offline(c)
           messageId == uid(r, t)
           wrote == safeSend(c, Arr(<<Num(CALL), Str(messageId), action,
                                      OrElse(payload, EmptyObj)>>), thrown)
       IN  IF ~Authorized(apiKey, header)
           THEN /\ last' = [Ev("send-unauthorized", 0) EXCEPT !.header = header]
                /\ UNCHANGED <<sent, reqs>>
           ELSE IF offline
           THEN /\ last' = [Ev("send-offline", 0) EXCEPT !.header = header]
                /\ UNCHANGED <<sent, reqs>>
           ELSE /\ sent' = Write(c, wrote)
                /\ reqs' = Append(reqs, Req(c, serial, messageId, FALSE, wrote # <<>>))
                /\ last' = [Ev("send", c) EXCEPT !.wrote = wrote, !.key = Str(messageId),
                                                 !.header = header]
    /\ UNCHANGED <<build, apiKey, codec, requireSubprotocol, handshake, base44Timers, intervals, reported, pinged, enablePing, isAlive, quiet, deliveries, ocppLog, now, nextWs, wsId, readyState, accepted, clients,
                   pendingRequests, tasks, crashed>>

\* ws.on("pong")
P003Pong(c) ==
    /\ build = "p003" /\ ~crashed
    /\ Open(c) /\ accepted[c]
    /\ steps < MaxSteps
    /\ steps' = steps + 1
    /\ isAlive' = [isAlive EXCEPT ![c] = TRUE]
    /\ quiet' = [quiet EXCEPT ![c] = 0]
    /\ pinged' = [pinged EXCEPT ![c] = FALSE]
    /\ last' = Ev("pong", c)
    /\ UNCHANGED <<build, apiKey, codec, requireSubprotocol, handshake, base44Timers, intervals, reported, enablePing, deliveries, ocppLog, now, nextWs, wsId, readyState,
                   accepted, clients, pendingRequests, sent, tasks, reqs, crashed>>

\* the sockets the registry holds
Registered == {c \in Conns : \E s \in Serials : clients[s] = c}

\* every registered socket the watchdog would terminate whether or not
\* its pong came back
DeadAll == Registered

\* the registered sockets the watchdog terminates: ws.isAlive === false
Dead == {c \in Registered : ~isAlive[c]}

\* one run of the ping watchdog's setInterval callback: every registered
\* socket whose isAlive is false is terminated (its close handler runs
\* later) and taken out of clients, with a status message for the backend;
\* every other one gets isAlive = false and a ping
P003Watchdog ==
    /\ build = "p003" /\ ~crashed
    /\ enablePing
    /\ steps < MaxSteps
    /\ steps' = steps + 1
    /\ LET dead == Dead
       IN  /\ readyState' = [c \in Conns |->
                                IF c \in dead /\ readyState[c] = "OPEN" THEN "CLOSING"
                                ELSE readyState[c]]
           /\ clients' = [s \in Serials |-> IF clients[s] \in dead THEN 0 ELSE clients[s]]
           /\ isAlive' = [c \in Conns |-> IF c \in Registered THEN FALSE ELSE isAlive[c]]
           /\ pinged' = [c \in Conns |-> IF c \in Registered \ dead /\ Open(c) THEN TRUE
                                          ELSE pinged[c]]
           /\ deliveries' = Started(Cardinality(dead))
           /\ quiet' = [c \in Conns |-> IF Open(c) /\ accepted[c] THEN quiet[c] + 1
                                         ELSE quiet[c]]
           /\ reported' = [s \in Serials |->
                              IF clients[s] \in dead THEN "Unavailable" ELSE reported[s]]
           /\ last' = [Ev("watchdog", 0) EXCEPT !.evicted = dead,
                                                !.fwd = Cardinality(dead)]
    /\ UNCHANGED <<build, apiKey, codec, requireSubprotocol, handshake, base44Timers, intervals, enablePing, ocppLog, now, nextWs, wsId, accepted,
                   pendingRequests, sent, tasks, reqs, crashed>>

\* a fetch of sendToBase44 that started at clock reading d settles: ok, or a status that is not ok or a
\* network error, which are logged
P003DeliveryEnds(d, ok) ==
    /\ build = "p003" /\ ~crashed
    /\ steps < MaxSteps
    /\ steps' = steps + 1
    /\ d \in StartTimes
    /\ deliveries' = Settled(d)
    /\ last' = Ev(IF ok THEN "delivered" ELSE "delivery-failed", 0)
    /\ UNCHANGED <<build, apiKey, codec, requireSubprotocol, handshake, base44Timers, intervals, reported, pinged, enablePing, isAlive, quiet, ocppLog, now, nextWs, wsId,
                   readyState, accepted, clients, pendingRequests, sent, tasks, reqs,
                   crashed>>

\* the clock advances; no timer of this build bounds a fetch
P003Tick ==
    /\ build = "p003" /\ ~crashed
    /\ now < MaxNow
    /\ steps < MaxSteps
    /\ steps' = steps + 1
    /\ now' = now + 1
    /\ last' = Ev("tick", 0)
    /\ UNCHANGED <<build, apiKey, codec, requireSubprotocol, handshake, base44Timers, intervals, reported, pinged, enablePing, isAlive, quiet, deliveries, ocppLog, nextWs, wsId,
                   readyState, accepted, clients, pendingRequests, sent, tasks, reqs,
                   crashed>>

\* one run of the callback of the heartbeat interval that connection c
\* set: a heartbeat message is handed to sendToBase44 when the registry
\* holds an open socket for the identity, whichever socket that is
P003Heartbeat(c) ==
    /\ build = "p003" /\ ~crashed
    /\ steps < MaxSteps
    /\ steps' = steps + 1
    /\ c \in intervals
    /\ LET cur == clients[wsId[c]]
           skipped == cur = 0 \/ ~Open(cur)
       IN  /\ deliveries' = Started(IF skipped THEN 0 ELSE 1)
           /\ last' = IF skipped THEN Ev("heartbeat-skipped", c)
                      ELSE [Ev("heartbeat", cur) EXCEPT !.fwd = 1]
    /\ UNCHANGED <<build, apiKey, codec, requireSubprotocol, handshake, base44Timers, intervals, pinged,
                   reported, enablePing, isAlive, quiet, ocppLog, now, nextWs, wsId,
                   readyState, accepted, clients, pendingRequests, sent, tasks, reqs,
                   crashed>>

\* the steps of the sockets' handlers, of the HTTP handler, of the fetches
\* and of the clock
NextP003Core ==
    \/ \E s \in Serials, p \in Protocols : P003Connection(s, p)
    \/ \E c \in Conns, x \in InTexts : P003Message(c, x, now)
    \/ \E c \in Conns : P003Close(c)
    \/ \E s \in Ids, a \in CmdActions, p \in CmdPayloads, h \in PresentHeaders,
          r \in Rands, thrown \in BOOLEAN : P003Send(s, a, p, h, r, now, thrown)
    \/ \E d \in StartTimes, ok \in BOOLEAN : P003DeliveryEnds(d, ok)
    \/ P003Tick

\* the steps of the build when the ping watchdog is not installed: no ping
\* is sent, and no pong comes back
NextP003Handlers ==
    \/ NextP003Core
    \/ \E c \in Conns : P003Heartbeat(c)

NextP003 ==
    \/ NextP003Handlers
    \/ \E c \in Conns : P003Pong(c)
    \/ P003Watchdog

\* the build with API_KEY set: a submission can be refused for its key
InitP003 == Init /\ build = "p003" /\ apiKey = Str("secret")
SpecP003 == InitP003 /\ [][NextP003]_vars

\* the build as it runs by default: ENABLE_PING is not set
InitP003Default == InitP003 /\ ~enablePing
SpecP003Default == InitP003Default /\ [][NextP003Handlers]_vars

\* the life of the sessions alone: what the sockets' handlers and the two
\* timers do, with no command submitted and the clock left alone
NextP003Sessions ==
    \/ \E s \in Serials, p \in Protocols : P003Connection(s, p)
    \/ \E c \in Conns, x \in InTexts : P003Message(c, x, now)
    \/ \E c \in Conns : P003Close(c)
    \/ \E c \in Conns : P003Heartbeat(c)
    \/ \E c \in Conns : P003Pong(c)
    \/ P003Watchdog

SpecP003Sessions == InitP003 /\ [][NextP003Sessions]_vars

----------------------------------------------------------------------------
(* Build "p000": src/unnamed/part_000 lines 1-189. *)

\* a command the backend suggests in its answer: {action, payload}
Cmd(a, p) == [action |-> a, payload |-> p]

\* what postJson resolves to: {ok, json: {callResult, commands}}
BackendAnswers ==
    {[ok |-> FALSE, callResult |-> Undefined, commands |-> <<>>],
     [ok |-> TRUE, callResult |-> Obj([status |-> Str("Accepted")]),
      commands |-> <<Cmd(Str("Reset"), Undefined)>>]}

\* the random draws of one handler run: one per suggested command
RandDraws == {<<>>} \cup {<<r>> : r \in Rands}

\* pendingRequests.get(messageId): only strings the gateway stored are keys
PendingGet(messageId) ==
    IF "str" \in DOMAIN messageId /\ messageId.str \in UidValues
    THEN pendingRequests[messageId.str]
    ELSE NoPending

\* pendingRequests after sendOcppCall has run for every command, the i-th
\* with message id ids[i]
RECURSIVE TrackAll(_, _, _, _, _)
TrackAll(pend, cp, cmds, ids, t) ==
    IF cmds = <<>> THEN pend
    ELSE TrackAll([pend EXCEPT ![Head(ids)] =
                       [chargePointId |-> cp, action |-> Head(cmds).action, createdAt |-> t]],
                  cp, Tail(cmds), Tail(ids), t)

\* the Call frames sendOcppCall builds
CallFrames(cmds, ids) ==
    [i \in 1..Len(cmds) |->
        JSONstringify(Arr(<<Num(CALL), Str(ids[i]), cmds[i].action,
                            Nullish(cmds[i].payload, EmptyObj)>>))]

\* sendOcppCall for each command on ws c: the table is written before
\* ws.send, and the frame reaches the connection only when it is open
sendOcppCalls(c, cp, cmds, ids, t) ==
    /\ pendingRequests' = TrackAll(pendingRequests, cp, cmds, ids, t)
    /\ sent' = IF Open(c) THEN Write(c, CallFrames(cmds, ids)) ELSE sent
    /\ reqs' = reqs \o [i \in 1..Len(cmds) |-> Req(c, cp, ids[i], TRUE, Open(c))]

\* a table in which a reply removes a pending entry whatever its id
ResolvedAny(messageId) ==
    IF \E m \in UidValues : pendingRequests[m] # NoPending
    THEN [pendingRequests EXCEPT
             ![CHOOSE m \in UidValues : pendingRequests[m] # NoPending] = NoPending]
    ELSE pendingRequests

\* the table after the reply branch: const pending = get(messageId);
\* if (pending) delete(messageId)
Resolved(messageId) ==
    IF PendingGet(messageId) # NoPending
    THEN [pendingRequests EXCEPT ![messageId.str] = NoPending]
    ELSE pendingRequests

\* wss.on("connection"): every path is registered ("/" as "UNKNOWN")
P000Connection(chargePointId) ==
    /\ build = "p000" /\ ~crashed
    /\ nextWs < MaxConn /\ steps < MaxSteps
    /\ steps' = steps + 1
    /\ LET c == nextWs + 1
       IN  /\ nextWs' = c
           /\ wsId' = [wsId EXCEPT ![c] = chargePointId]
           /\ readyState' = [readyState EXCEPT ![c] = "OPEN"]
           /\ accepted' = [accepted EXCEPT ![c] = TRUE]
           /\ clients' = [clients EXCEPT ![chargePointId] = c]
           /\ last' = Ev("connection", c)
    /\ UNCHANGED <<build, apiKey, codec, requireSubprotocol, handshake, base44Timers, intervals, reported, pinged, enablePing, isAlive, quiet, deliveries, ocppLog, now, pendingRequests, sent, tasks, reqs, crashed>>

\* ws.on("message") up to its first await
P000Message(c, text) ==
    /\ build = "p000" /\ ~crashed
    /\ Open(c) /\ accepted[c]
    /\ steps < MaxSteps
    /\ steps' = steps + 1
    /\ LET parsed == JSONparse(text)
           msg == parsed.value
           dropped == ~parsed.ok \/ ~IsArray(msg) \/ Len(msg.arr) < 2
           type == At(msg, 0)
           messageId == At(msg, 1)
           pending == PendingGet(messageId)
           task(kind) == [seq |-> steps, kind |-> kind, ws |-> c, cp |-> wsId[c],
                          messageId |-> messageId, action |-> At(msg, 2)]
       IN  IF dropped \/ type \notin {Num(CALL), Num(CALLRESULT), Num(CALLERROR)}
           THEN /\ last' = [Ev("message", c) EXCEPT !.text = text]
                /\ UNCHANGED <<pendingRequests, tasks, reqs>>
           ELSE IF type = Num(CALL)
           THEN /\ tasks' = tasks \cup {task("call")}
                /\ last' = [Ev("message", c) EXCEPT !.text = text, !.key = messageId]
                /\ UNCHANGED <<pendingRequests, reqs>>
           ELSE /\ pendingRequests' = Resolved(messageId)
                /\ reqs' =
                      IF pending # NoPending
                      THEN LET i == CHOOSE i \in DOMAIN reqs :
                                      /\ reqs[i].id = messageId.str /\ reqs[i].tracked
                                      /\ \A j \in DOMAIN reqs :
                                            reqs[j].id = messageId.str /\ reqs[j].tracked => j <= i
                           IN  [reqs EXCEPT ![i].done = @ + 1]
                      ELSE reqs
                /\ tasks' = tasks \cup {task("reply")}
                /\ last' = [Ev("message", c) EXCEPT !.text = text, !.key = messageId,
                                                    !.removed = pending]
    /\ UNCHANGED <<build, apiKey, codec, requireSubprotocol, handshake, base44Timers, intervals, reported, pinged, enablePing, isAlive, quiet, deliveries, ocppLog, now, nextWs, wsId, readyState, accepted, clients, sent, crashed>>

\* postJson resolves with answer r and the suspended handler runs to its
\* end: the reply, then sendOcppCall for every suggested command.  rands
\* are the random draws of the uid() calls.  On a socket
\* that is no longer open nothing is written; the table is written anyway.
P000PostJsonReturns(task, r, rands) ==
    /\ build = "p000" /\ ~crashed
    /\ steps < MaxSteps
    /\ steps' = steps + 1
    /\ task \in tasks
    /\ tasks' = tasks \ {task}
    /\ LET c == task.ws
           callResult == IF r.ok /\ r.callResult # Undefined THEN r.callResult ELSE EmptyObj
           reply == JSONstringify(Arr(<<Num(CALLRESULT), task.messageId, callResult>>))
           commands == IF r.ok THEN r.commands ELSE <<>>
           ids == [i \in 1..Len(commands) |-> uid(rands[i], now)]
           wrote == wsSend(c, <<reply>> \o CallFrames(commands, ids))
       IN  /\ Len(rands) = Len(commands)
           /\ IF task.kind = "reply"
              THEN /\ r = [ok |-> FALSE, callResult |-> Undefined, commands |-> <<>>]
                   /\ last' = Ev("postJson-returns", c)
                   /\ UNCHANGED <<pendingRequests, sent, reqs>>
              ELSE /\ pendingRequests' = TrackAll(pendingRequests, task.cp, commands, ids, now)
                   /\ sent' = Write(c, wrote)
                   /\ reqs' = reqs \o [i \in 1..Len(commands) |->
                                          Req(c, task.cp, ids[i], TRUE, Open(c))]
                   /\ last' = [Ev("postJson-returns", c) EXCEPT
                                  !.wrote = wrote, !.key = task.messageId]
    /\ UNCHANGED <<build, apiKey, codec, requireSubprotocol, handshake, base44Timers, intervals, reported, pinged, enablePing, isAlive, quiet, deliveries, ocppLog, now, nextWs, wsId, readyState, accepted, clients, crashed>>

\* postJson resolves after the socket has left OPEN and this version of
\* the ws library throws from send() on such a socket: the handler's
\* promise is rejected at the reply, before any command, and nothing
\* handles the rejection; exits tells whether that ends the process
P000SendThrows(task, exits) ==
    /\ build = "p000" /\ ~crashed
    /\ steps < MaxSteps
    /\ steps' = steps + 1
    /\ task \in tasks /\ task.kind = "call"
    /\ ~Open(task.ws)
    /\ tasks' = tasks \ {task}
    /\ crashed' = exits
    /\ last' = Ev("unhandled-rejection", task.ws)
    /\ UNCHANGED <<build, apiKey, codec, requireSubprotocol, handshake, base44Timers, intervals, reported, pinged, enablePing, isAlive, quiet, deliveries, ocppLog, now, nextWs, wsId, readyState, accepted, clients,
                   pendingRequests, sent, reqs>>

\* postJson rejects (fetch failed): the handler's promise is rejected and
\* nothing handles it; exits tells whether that ends the process
P000PostJsonRejects(task, exits) ==
    /\ build = "p000" /\ ~crashed
    /\ steps < MaxSteps
    /\ steps' = steps + 1
    /\ task \in tasks
    /\ tasks' = tasks \ {task}
    /\ crashed' = exits
    /\ last' = [Ev("postJson-rejects", task.ws) EXCEPT
                   !.key = IF task.kind = "call" THEN task.messageId ELSE Undefined]
    /\ UNCHANGED <<build, apiKey, codec, requireSubprotocol, handshake, base44Timers, intervals, reported, pinged, enablePing, isAlive, quiet, deliveries, ocppLog, now, nextWs, wsId, readyState, accepted, clients,
                   pendingRequests, sent, reqs>>

\* ws.on("close")
P000Close(c) ==
    /\ build = "p000" /\ ~crashed
    /\ steps < MaxSteps
    /\ steps' = steps + 1
    /\ c \in Conns /\ readyState[c] \in {"OPEN", "CLOSING"}
    /\ readyState' = [readyState EXCEPT ![c] = "CLOSED"]
    /\ clients' = [clients EXCEPT ![wsId[c]] = 0]
    /\ last' = Ev("close", c)
    /\ UNCHANGED <<build, apiKey, codec, requireSubprotocol, handshake, base44Timers, intervals, reported, pinged, enablePing, isAlive, quiet, deliveries, ocppLog, now, nextWs, wsId, accepted, pendingRequests, sent,
                   tasks, reqs, crashed>>

\* POST /ocpp/send with body {chargePointId, action, payload}
P000Send(chargePointId, action, payload, header, r) ==
    /\ build = "p000" /\ ~crashed
    /\ steps < MaxSteps
    /\ steps' = steps + 1
    /\ LET c == clients[chargePointId]
           offline == Offline(c)
           messageId == uid(r, now)
       IN  IF ~Authorized(apiKey, header)
           THEN /\ last' = [Ev("send-unauthorized", 0) EXCEPT !.header = header]
                /\ UNCHANGED <<pendingRequests, sent, reqs>>
           ELSE IF offline
           THEN /\ last' = [Ev("send-offline", 0) EXCEPT !.header = header]
                /\ UNCHANGED <<pendingRequests, sent, reqs>>
           ELSE /\ sendOcppCalls(c, chargePointId, <<Cmd(action, payload)>>, <<messageId>>, now)
                /\ last' = [Ev("send", c) EXCEPT
                               !.header = header,
                               !.wrote = CallFrames(<<Cmd(action, payload)>>, <<messageId>>),
                               !.key = Str(messageId),
                               !.collided = pendingRequests[messageId] # NoPending]
    /\ UNCHANGED <<build, apiKey, codec, requireSubprotocol, handshake, base44Timers, intervals, reported, pinged, enablePing, isAlive, quiet, deliveries, ocppLog, now, nextWs, wsId, readyState, accepted, clients, tasks, crashed>>

\* the clock advances; no timer of this build is armed to run with it
Tick ==
    /\ build = "p000" /\ ~crashed
    /\ now < MaxNow
    /\ steps < MaxSteps
    /\ steps' = steps + 1
    /\ now' = now + 1
    /\ last' = Ev("tick", 0)
    /\ UNCHANGED <<build, apiKey, codec, requireSubprotocol, handshake, base44Timers, intervals, reported, pinged, enablePing, isAlive, quiet, deliveries, ocppLog, nextWs, wsId, readyState, accepted, clients,
                   pendingRequests, sent, tasks, reqs, crashed>>

NextP000 ==
    \/ \E s \in Ids : P000Connection(s)
    \/ \E c \in Conns, x \in InTexts : P000Message(c, x)
    \/ \E task \in tasks, r \in BackendAnswers, rands \in RandDraws :
          P000PostJsonReturns(task, r, rands)
    \/ \E task \in tasks, exits \in BOOLEAN : P000SendThrows(task, exits)
    \/ \E task \in tasks, exits \in BOOLEAN : P000PostJsonRejects(task, exits)
    \/ \E c \in Conns : P000Close(c)
    \/ \E s \in Ids, a \in CmdActions, p \in CmdPayloads, h \in PresentHeaders, r \in Rands :
          P000Send(s, a, p, h, r)
    \/ Tick
    \/ \E c \in Conns : CloseFrameArrives(c)

\* the build with API_KEY set
InitP000 == Init /\ build = "p000" /\ apiKey = Str("secret")
SpecP000 == InitP000 /\ [][NextP000]_vars

----------------------------------------------------------------------------
(* Build "node": src/server.js lines 1-266. *)

\* r is the Math.random() draw of StartTransaction
NodebuildCallResult(action, t, r) ==
    CASE action = "BootNotification" ->
            Obj([status |-> Str("Accepted"), currentTime |-> nowIso(t),
                 interval |-> Num(NodeBootInterval)])
      [] action = "Heartbeat" -> Obj([currentTime |-> nowIso(t)])
      [] action = "Authorize" -> Obj([idTagInfo |-> Obj([status |-> Str("Accepted")])])
      [] action = "StartTransaction" ->
            Obj([transactionId |-> Num(r),
                 idTagInfo |-> Obj([status |-> Str("Accepted")])])
      [] action = "StopTransaction" -> Obj([idTagInfo |-> Obj([status |-> Str("Accepted")])])
      [] action = "DataTransfer" -> Obj([status |-> Str("Accepted")])
      [] OTHER -> EmptyObj

\* list.includes(p) / protocols.has(p)
Includes(list, p) == \E i \in DOMAIN list : list[i] = p

\* handleProtocols(protocols, request); "" stands for the value false
handleProtocols(protocols, require) ==
    IF Len(protocols) = 0 THEN ""
    ELSE IF Includes(protocols, "ocpp1.6") THEN "ocpp1.6"
    ELSE IF ~require THEN protocols[1]
    ELSE ""

\* the handshake of the WebSocket server: handleProtocols is asked when the
\* client offered a subprotocol, and a value that is not a protocol leaves
\* the response without one; the handshake completes either way
Negotiated(protocols, require) ==
    IF Len(protocols) = 0 THEN "" ELSE handleProtocols(protocols, require)

\* wss.on("connection"): no registry, handlers on every socket
NodeConnection(chargePointId, offered) ==
    /\ build = "node" /\ ~crashed
    /\ nextWs < MaxConn /\ steps < MaxSteps
    /\ steps' = steps + 1
    /\ LET c == nextWs + 1
       IN  /\ nextWs' = c
           /\ wsId' = [wsId EXCEPT ![c] = chargePointId]
           /\ readyState' = [readyState EXCEPT ![c] = "OPEN"]
           /\ accepted' = [accepted EXCEPT ![c] = TRUE]
           /\ handshake' = [handshake EXCEPT ![c] =
                                [offered |-> offered,
                                 protocol |-> Negotiated(offered, requireSubprotocol)]]
           /\ last' = Ev("connection", c)
    /\ UNCHANGED <<build, apiKey, codec, requireSubprotocol, base44Timers, intervals, reported, pinged, enablePing, isAlive, quiet, deliveries, ocppLog, now, clients, pendingRequests, sent, tasks, reqs, crashed>>

\* ws.on("message")
NodeMessage(c, text, t, r) ==
    /\ build = "node" /\ ~crashed
    /\ Open(c) /\ accepted[c]
    /\ steps < MaxSteps
    /\ steps' = steps + 1
    /\ LET parsed == JSONparse(text)
           msg == parsed.value
           dropped == ~parsed.ok \/ ~IsArray(msg) \/ Len(msg.arr) < 3
           messageTypeId == At(msg, 0)
           callResult == Arr(<<Num(CALLRESULT), At(msg, 1),
                               NodebuildCallResult(ActionName(At(msg, 2)), t, r)>>)
           wrote == IF ~dropped /\ messageTypeId = Num(CALL)
                    THEN <<JSONstringify(callResult)>> ELSE <<>>
           fwd == IF ~dropped /\ messageTypeId \in {Num(CALL), Num(CALLRESULT), Num(CALLERROR)}
                  THEN 1 ELSE 0
       IN  /\ sent' = Write(c, wrote)
           /\ deliveries' = Started(fwd)
           /\ last' = [Ev("message", c) EXCEPT !.text = text, !.wrote = wrote, !.fwd = fwd]
    /\ UNCHANGED <<build, apiKey, codec, requireSubprotocol, handshake, base44Timers, intervals, reported, pinged, enablePing, isAlive, quiet, ocppLog, now, nextWs, wsId,
                   readyState, accepted, clients, pendingRequests, tasks, reqs, crashed>>

\* ws.on("close"): logs only
NodeClose(c) ==
    /\ build = "node" /\ ~crashed
    /\ steps < MaxSteps
    /\ steps' = steps + 1
    /\ c \in Conns /\ readyState[c] \in {"OPEN", "CLOSING"}
    /\ readyState' = [readyState EXCEPT ![c] = "CLOSED"]
    /\ last' = Ev("close", c)
    /\ UNCHANGED <<build, apiKey, codec, requireSubprotocol, handshake, base44Timers, intervals, reported, pinged, enablePing, isAlive, quiet, deliveries, ocppLog, now, nextWs, wsId, accepted, clients, pendingRequests,
                   sent, tasks, reqs, crashed>>

\* the timer of a forwardToBase44 that started at clock reading d has run out
Due(d) == now - d >= DeliveryTimeout

\* a fetch of forwardToBase44 that started at clock reading d settles: ok, or
\* a status that is not ok or a network error; the caller logs a failure
NodeDeliveryEnds(d, ok) ==
    /\ build = "node" /\ ~crashed
    /\ steps < MaxSteps
    /\ steps' = steps + 1
    /\ d \in StartTimes
    /\ deliveries' = Settled(d)
    /\ last' = Ev(IF ok THEN "delivered" ELSE "delivery-failed", 0)
    /\ UNCHANGED <<build, apiKey, codec, requireSubprotocol, handshake, base44Timers, intervals, reported, pinged, enablePing, isAlive, quiet, ocppLog, now, nextWs, wsId,
                   readyState, accepted, clients, pendingRequests, sent, tasks, reqs,
                   crashed>>

\* the timer of forwardToBase44 runs out: controller.abort() rejects the
\* fetch, the catch returns {ok: false} and the caller logs the failure
NodeDeliveryAborts(d) ==
    /\ build = "node" /\ ~crashed
    /\ steps < MaxSteps
    /\ steps' = steps + 1
    /\ d \in StartTimes /\ Due(d)
    /\ deliveries' = Settled(d)
    /\ last' = Ev("delivery-timeout", 0)
    /\ UNCHANGED <<build, apiKey, codec, requireSubprotocol, handshake, base44Timers, intervals, reported, pinged, enablePing, isAlive, quiet, ocppLog, now, nextWs, wsId,
                   readyState, accepted, clients, pendingRequests, sent, tasks, reqs,
                   crashed>>

\* the clock advances, unless a timer that has run out is still to fire
NodeTick ==
    /\ build = "node" /\ ~crashed
    /\ now < MaxNow
    /\ \A d \in StartTimes : ~Due(d)
    /\ steps < MaxSteps
    /\ steps' = steps + 1
    /\ now' = now + 1
    /\ last' = Ev("tick", 0)
    /\ UNCHANGED <<build, apiKey, codec, requireSubprotocol, handshake, base44Timers, intervals, reported, pinged, enablePing, isAlive, quiet, deliveries, ocppLog, nextWs, wsId,
                   readyState, accepted, clients, pendingRequests, sent, tasks, reqs,
                   crashed>>

NextNode ==
    \/ \E s \in Ids, o \in Offers : NodeConnection(s, o)
    \/ \E c \in Conns, x \in InTexts, r \in Rands : NodeMessage(c, x, now, r)
    \/ \E c \in Conns : NodeClose(c)
    \/ \E d \in StartTimes, ok \in BOOLEAN : NodeDeliveryEnds(d, ok)
    \/ \E d \in StartTimes : NodeDeliveryAborts(d)
    \/ NodeTick

InitNode == Init /\ build = "node"
SpecNode == InitNode /\ [][NextNode]_vars

----------------------------------------------------------------------------
(* Build "deno": src/server.js lines 268-844.  The registry activeConnections
   is the variable clients; the monitoring sockets (clientConnections) only
   receive broadcasts and are left out. *)

Thrown == [thrown |-> TRUE]

HasField(payload, f) == "obj" \in DOMAIN payload /\ f \in DOMAIN payload.obj

\* the handlers destructure the payload, which throws on null and undefined
DenoprocessChargerRequest(action, payload, t) ==
    LET nullish == payload \in {Undefined, Null}
    IN  CASE action = "BootNotification" ->
                IF nullish THEN Thrown
                ELSE Obj([status |-> Str("Accepted"), currentTime |-> nowIso(t),
                          interval |-> Num(DenoBootInterval)])
          [] action = "Heartbeat" -> Obj([currentTime |-> nowIso(t)])
          [] action = "StatusNotification" -> IF nullish THEN Thrown ELSE EmptyObj
          [] action = "StartTransaction" ->
                IF nullish THEN Thrown
                ELSE Obj([transactionId |-> Num(t),
                          idTagInfo |-> Obj([status |-> Str("Accepted")])])
          [] action = "StopTransaction" ->
                IF nullish \/ ~HasField(payload, "transactionId") THEN Thrown
                ELSE Obj([idTagInfo |-> Obj([status |-> Str("Accepted")])])
          [] action = "MeterValues" -> IF nullish THEN Thrown ELSE EmptyObj
          [] OTHER -> Obj([status |-> Str("Rejected")])

\* null for a frame that is not a Call
DenohandleOcppMessage(msg, t) ==
    IF At(msg, 0) = Num(CALL)
    THEN LET response == DenoprocessChargerRequest(ActionName(At(msg, 2)), At(msg, 3), t)
         IN  IF response = Thrown THEN Thrown
             ELSE Arr(<<Num(CALLRESULT), At(msg, 1), response>>)
    ELSE Null

\* crypto.randomUUID(): a version 4 UUID, taken to be fresh on every call
randomUUID == "uuid-" \o ToString(Len(reqs))

\* indices of the logs OcppLog.filter returns for a charger; the backend is
\* taken to return them in the order they were created (SetToSeq)
QueuedLogs(serial) ==
    {i \in DOMAIN ocppLog : ocppLog[i].charger_id = serial /\ ocppLog[i].status = "queued"}

\* a filter result with the newest log first
RECURSIVE SetToSeqDescending(_)
SetToSeqDescending(S) ==
    IF S = {} THEN <<>>
    ELSE LET m == CHOOSE x \in S : \A y \in S : x >= y
         IN  <<m>> \o SetToSeqDescending(S \ {m})

RECURSIVE SetToSeq(_)
SetToSeq(S) ==
    IF S = {} THEN <<>>
    ELSE LET m == CHOOSE x \in S : \A y \in S : x <= y
         IN  <<m>> \o SetToSeq(S \ {m})

QueuedFrame(i, messageId) ==
    JSONstringify(Arr(<<Num(CALL), Str(messageId), ocppLog[i].message_type,
                        OrElse(ocppLog[i].payload, EmptyObj)>>))

\* Deno.serve upgrade and socket.onopen up to its first await
DenoOpen(serialNumber) ==
    /\ build = "deno" /\ ~crashed
    /\ nextWs < MaxConn /\ steps < MaxSteps
    /\ steps' = steps + 1
    /\ LET c == nextWs + 1
       IN  /\ nextWs' = c
           /\ wsId' = [wsId EXCEPT ![c] = serialNumber]
           /\ readyState' = [readyState EXCEPT ![c] = "OPEN"]
           /\ accepted' = [accepted EXCEPT ![c] = TRUE]
           /\ clients' = [clients EXCEPT ![serialNumber] = c]
           /\ tasks' = tasks \cup {[seq |-> steps, kind |-> "open", ws |-> c, cp |-> serialNumber,
                                    logs |-> <<>>, msg |-> Null]}
           /\ last' = Ev("connection", c)
    /\ UNCHANGED <<build, apiKey, codec, requireSubprotocol, handshake, base44Timers, intervals, reported, pinged, enablePing, isAlive, quiet, deliveries, ocppLog, now, pendingRequests, sent, reqs, crashed>>

\* onopen resumes after Charger.filter and OcppLog.filter: outcome is
\* "rejects" (Charger.filter fails, outside any try), "notfound", "found";
\* with queued logs the first one is sent before the next await
DenoOpenResumes(task, outcome, exits) ==
    /\ build = "deno" /\ ~crashed
    /\ steps < MaxSteps
    /\ steps' = steps + 1
    /\ task \in tasks /\ task.kind = "open"
    /\ outcome \in {"rejects", "notfound", "found"}
    /\ LET c == task.ws
           logs == SetToSeq(QueuedLogs(task.cp))
           u == randomUUID
           sends == outcome = "found" /\ logs # <<>> /\ Open(c)
           wrote == IF sends THEN <<QueuedFrame(Head(logs), u)>> ELSE <<>>
       IN  /\ tasks' = (tasks \ {task}) \cup
                       (IF sends THEN {[task EXCEPT !.kind = "update", !.logs = logs]}
                        ELSE {})
           /\ sent' = Write(c, wrote)
           /\ reqs' = IF sends THEN Append(reqs, Req(c, task.cp, u, FALSE, TRUE)) ELSE reqs
           /\ crashed' = (outcome = "rejects" /\ exits)
           /\ last' = [Ev("open", c) EXCEPT !.wrote = wrote]
    /\ UNCHANGED <<build, apiKey, codec, requireSubprotocol, handshake, base44Timers, intervals, reported, pinged, enablePing, isAlive, quiet, deliveries, ocppLog, now, nextWs, wsId, readyState, accepted, clients,
                   pendingRequests>>

\* OcppLog.update of the log just sent returns (ok) or fails; on success
\* the loop goes on to the next queued log
DenoUpdateReturns(task, ok) ==
    /\ build = "deno" /\ ~crashed
    /\ steps < MaxSteps
    /\ steps' = steps + 1
    /\ task \in tasks /\ task.kind = "update"
    /\ LET c == task.ws
           rest == Tail(task.logs)
           u == randomUUID
           sends == ok /\ rest # <<>> /\ Open(c)
           wrote == IF sends THEN <<QueuedFrame(Head(rest), u)>> ELSE <<>>
       IN  /\ ocppLog' = IF ok THEN [ocppLog EXCEPT ![Head(task.logs)].status = "sent"]
                         ELSE ocppLog
           /\ tasks' = (tasks \ {task}) \cup
                       (IF sends THEN {[task EXCEPT !.logs = rest]} ELSE {})
           /\ sent' = Write(c, wrote)
           /\ reqs' = IF sends THEN Append(reqs, Req(c, task.cp, u, FALSE, TRUE)) ELSE reqs
           /\ last' = [Ev("update", c) EXCEPT !.wrote = wrote]
    /\ UNCHANGED <<build, apiKey, codec, requireSubprotocol, handshake, base44Timers, intervals, reported, pinged, enablePing, isAlive, quiet, deliveries, now, nextWs, wsId, readyState, accepted, clients,
                   pendingRequests, crashed>>


\* socket.onmessage up to its first await; a text that does not parse, or
\* parses to a value that cannot be destructured, ends in the catch.  For a
\* frame that is not a Call, handleOcppMessage returns null and the rest of
\* the handler only writes backend logs, so the handler is done here
DenoMessage(c, text) ==
    /\ build = "deno" /\ ~crashed
    /\ Open(c) /\ accepted[c]
    /\ steps < MaxSteps
    /\ steps' = steps + 1
    /\ LET parsed == JSONparse(text)
           caught == ~parsed.ok \/ ~IsArray(parsed.value)
       IN  /\ tasks' = IF caught \/ At(parsed.value, 0) # Num(CALL) THEN tasks
                       ELSE tasks \cup {[seq |-> steps, kind |-> "message", ws |-> c,
                                         cp |-> wsId[c], logs |-> <<>>,
                                         msg |-> parsed.value]}
           /\ last' = [Ev("message", c) EXCEPT !.text = text]
    /\ UNCHANGED <<build, apiKey, codec, requireSubprotocol, handshake, base44Timers, intervals, reported, pinged, enablePing, isAlive, quiet, deliveries, ocppLog, now, nextWs, wsId, readyState, accepted, clients,
                   pendingRequests, sent, reqs, crashed>>

\* onmessage resumes after its backend calls: outcome is "throws" (a
\* backend call fails), "notfound" (Charger.filter finds no charger) or
\* "found"; the reply is written only in the last case
DenoMessageResumes(task, outcome, t) ==
    /\ build = "deno" /\ ~crashed
    /\ steps < MaxSteps
    /\ steps' = steps + 1
    /\ task \in tasks /\ task.kind = "message"
    /\ outcome \in {"throws", "notfound", "found"}
    /\ tasks' = tasks \ {task}
    /\ LET c == task.ws
           response == DenohandleOcppMessage(task.msg, t)
           wrote == IF outcome = "found" /\ response \notin {Thrown, Null} /\ Open(c)
                    THEN <<JSONstringify(response)>> ELSE <<>>
       IN  /\ sent' = Write(c, wrote)
           /\ last' = [Ev("resume", c) EXCEPT !.text = JSONstringify(task.msg),
                                              !.wrote = wrote]
    /\ UNCHANGED <<build, apiKey, codec, requireSubprotocol, handshake, base44Timers, intervals, reported, pinged, enablePing, isAlive, quiet, deliveries, ocppLog, now, nextWs, wsId, readyState, accepted, clients,
                   pendingRequests, reqs, crashed>>

\* socket.onclose
DenoClose(c) ==
    /\ build = "deno" /\ ~crashed
    /\ steps < MaxSteps
    /\ steps' = steps + 1
    /\ c \in Conns /\ readyState[c] \in {"OPEN", "CLOSING"}
    /\ readyState' = [readyState EXCEPT ![c] = "CLOSED"]
    /\ clients' = [clients EXCEPT ![wsId[c]] = 0]
    /\ last' = Ev("close", c)
    /\ UNCHANGED <<build, apiKey, codec, requireSubprotocol, handshake, base44Timers, intervals, reported, pinged, enablePing, isAlive, quiet, deliveries, ocppLog, now, nextWs, wsId, accepted, pendingRequests,
                   sent, tasks, reqs, crashed>>

\* the exported sendToCharger; message is a Call the caller built
DenoCommands == {Arr(<<Num(CALL), Str("cmd-1"), Str("Reset"), EmptyObj>>)}

sendToCharger(serialNumber, message) ==
    /\ build = "deno" /\ ~crashed
    /\ steps < MaxSteps
    /\ steps' = steps + 1
    /\ LET c == clients[serialNumber]
           wrote == IF Open(c) THEN <<JSONstringify(message)>> ELSE <<>>
       IN  /\ sent' = IF Open(c) THEN Write(c, wrote) ELSE sent
           /\ reqs' = IF Open(c)
                      THEN Append(reqs, Req(c, serialNumber, At(message, 1).str, FALSE, TRUE))
                      ELSE reqs
           /\ last' = [Ev("send", c) EXCEPT !.wrote = wrote]
    /\ UNCHANGED <<build, apiKey, codec, requireSubprotocol, handshake, base44Timers, intervals, reported, pinged, enablePing, isAlive, quiet, deliveries, ocppLog, now, nextWs, wsId, readyState, accepted, clients,
                   pendingRequests, tasks, crashed>>

NextDeno ==
    \/ \E s \in Ids : DenoOpen(s)
    \/ \E task \in tasks, o \in {"rejects", "notfound", "found"}, exits \in BOOLEAN :
          DenoOpenResumes(task, o, exits)
    \/ \E task \in tasks, ok \in BOOLEAN : DenoUpdateReturns(task, ok)
    \/ \E c \in Conns, x \in InTexts : DenoMessage(c, x)
    \/ \E task \in tasks, o \in {"throws", "notfound", "found"}, t \in Times :
          DenoMessageResumes(task, o, t)
    \/ \E c \in Conns : DenoClose(c)
    \/ \E s \in Ids, m \in DenoCommands : sendToCharger(s, m)

InitDeno == Init /\ build = "deno"
SpecDeno == InitDeno /\ [][NextDeno]_vars

\* the build when a client may connect under any last path segment, the
\* segment UNKNOWN included (only an empty segment and "ocpp" are refused)
NextDenoAnyPath == NextDeno \/ DenoOpen("UNKNOWN")
SpecDenoAnyPath == InitDeno /\ [][NextDenoAnyPath]_vars

----------------------------------------------------------------------------
(* The codec on its own: a message is encoded, then the text is decoded. *)

CodecEncode ==
    /\ build = "codec" /\ codec.stage = "built"
    /\ codec' = [stage |-> "encoded", m |-> codec.m, text |-> encode(codec.m)]
    /\ UNCHANGED <<build, apiKey, nextWs, wsId, readyState, accepted, clients, pendingRequests,
                   sent, tasks, steps, reqs, crashed, ocppLog, now, enablePing, isAlive,
                   quiet, deliveries, last, requireSubprotocol, handshake, base44Timers,
                   intervals, reported, pinged>>

CodecDecode ==
    /\ build = "codec" /\ codec.stage = "encoded"
    /\ codec' = [stage |-> "decoded", m |-> codec.m, text |-> codec.text,
                 out |-> decode(codec.text)]
    /\ UNCHANGED <<build, apiKey, nextWs, wsId, readyState, accepted, clients, pendingRequests,
                   sent, tasks, steps, reqs, crashed, ocppLog, now, enablePing, isAlive,
                   quiet, deliveries, last, requireSubprotocol, handshake, base44Timers,
                   intervals, reported, pinged>>

\* a frame a charge point sent is decoded by the message handler of
\* server.js
CodecHandleNode ==
    /\ build = "codec" /\ codec.stage = "received"
    /\ codec' = [stage |-> "handled", by |-> "node", text |-> codec.text,
                 out |-> decode(codec.text)]
    /\ UNCHANGED <<build, apiKey, nextWs, wsId, readyState, accepted, clients, pendingRequests,
                   sent, tasks, steps, reqs, crashed, ocppLog, now, enablePing, isAlive,
                   quiet, deliveries, last, requireSubprotocol, handshake, base44Timers,
                   intervals, reported, pinged>>

\* the same, by the message handler of part_003
CodecHandleP003 ==
    /\ build = "codec" /\ codec.stage = "received"
    /\ codec' = [stage |-> "handled", by |-> "p003", text |-> codec.text,
                 out |-> P003decode(codec.text)]
    /\ UNCHANGED <<build, apiKey, nextWs, wsId, readyState, accepted, clients, pendingRequests,
                   sent, tasks, steps, reqs, crashed, ocppLog, now, enablePing, isAlive,
                   quiet, deliveries, last, requireSubprotocol, handshake, base44Timers,
                   intervals, reported, pinged>>

NextCodec == CodecEncode \/ CodecDecode \/ CodecHandleNode \/ CodecHandleP003

InitCodec == Init /\ build = "codec"
SpecCodec == InitCodec /\ [][NextCodec]_vars

----------------------------------------------------------------------------
(* All builds. *)

Next == NextP000 \/ NextP003 \/ NextNode \/ NextDeno \/ NextCodec

Spec == Init /\ [][Next]_vars

\* the two builds that take operator commands over HTTP (POST /ocpp/send),
\* as they run by default (ENABLE_PING is not set: no ping watchdog), the
\* heartbeat timers of part_003 left aside
InitCommandGateways ==
    Init /\ build \in {"p000", "p003"} /\ ~enablePing /\ apiKey = Str("secret")
NextCommandGateways == NextP000 \/ NextP003Core
SpecCommandGateways == InitCommandGateways /\ [][NextCommandGateways]_vars

\* the same two builds with API_KEY set or not, and the steps that bear on
\* a submission: sessions come and go, and commands are submitted
InitSubmissions == Init /\ build \in {"p000", "p003"} /\ ~enablePing
NextSubmissions ==
    \/ \E s \in Ids : P000Connection(s)
    \/ \E c \in Conns : P000Close(c)
    \/ \E s \in Ids, a \in CmdActions, p \in CmdPayloads, h \in Headers, r \in Rands :
          P000Send(s, a, p, h, r)
    \/ \E s \in Serials, p \in Protocols : P003Connection(s, p)
    \/ \E c \in Conns : P003Close(c)
    \/ \E s \in Ids, a \in CmdActions, p \in CmdPayloads, h \in Headers,
          r \in Rands, thrown \in BOOLEAN : P003Send(s, a, p, h, r, now, thrown)
SpecSubmissions == InitSubmissions /\ [][NextSubmissions]_vars

----------------------------------------------------------------------------
(* Notions the claims are stated in. *)

\* a session that is open and able to write: its socket is OPEN and the
\* connection handler kept it
Live(c) == Open(c) /\ accepted[c]

\* no later connection was accepted for the identity of b
Latest(b) == \A c \in Conns : (c > b /\ accepted[c]) => wsId[c] # wsId[b]

\* the message ids that have an entry in the correlation table
PendingIds == {m \in UidValues : pendingRequests[m] # NoPending}

\* no handler is suspended at an await
Idle == tasks = {}

----------------------------------------------------------------------------
(* Session registry. *)

\* C1: at every moment there is at most one live (open, able to write)
\* session per charge-point identity; two open connections of one identity
\* never coexist.
C1_OneLiveSessionPerIdentity ==
    \A a, b \in Conns : (Live(a) /\ Live(b) /\ wsId[a] = wsId[b]) => a = b

\* C2: after the close handler of a superseded session A has run, the
\* registry still maps the identity to its live successor B.
C2_CloseKeepsSuccessor ==
    \A a, b \in Conns :
        ( /\ last.op = "close" /\ last.ws = a /\ accepted[a]
          /\ a < b /\ Live(b) /\ wsId[b] = wsId[a] /\ Latest(b) )
        => clients[wsId[a]] = b


----------------------------------------------------------------------------
(* Correlation table. *)

\* a tracked Call still waiting for its reply
Waiting(i) == reqs[i].tracked /\ reqs[i].done = 0

\* the entry of message id m has been in the table for longer than the
\* request timeout
Overdue(m) ==
    pendingRequests[m] # NoPending /\ now - pendingRequests[m].createdAt > RequestTimeout

\* C3: the message id allocated for a new gateway-originated Call differs
\* from every id pending in that session: no two waiting requests of a
\* session share a message id.
C3_PendingIdsDistinct ==
    \A i, j \in DOMAIN reqs :
        (i # j /\ Waiting(i) /\ Waiting(j) /\ reqs[i].ws = reqs[j].ws)
        => reqs[i].id # reqs[j].id

\* C4: every tracked request is completed exactly once: never twice, and
\* while it is not completed it is in the table and, once the gateway is
\* idle, not past its deadline.
C4_CompletedExactlyOnce ==
    \A i \in DOMAIN reqs :
        reqs[i].tracked =>
            /\ reqs[i].done <= 1
            /\ reqs[i].done = 0 =>
                  /\ pendingRequests[reqs[i].id] # NoPending
                  /\ ~(Idle /\ Overdue(reqs[i].id))

\* C5: a tracked Call that gets no reply times out: once its timeout has
\* passed and the gateway is idle, its entry is no longer in the table.
C5_PendingExpires ==
    \A m \in UidValues : Idle => ~Overdue(m)

\* C6: a reply received on a session resolves a pending request only if
\* the request was tracked for that session's charge point.
C6_ReplyResolvesOwnRequest ==
    (last.op = "message" /\ last.removed # NoPending)
    => last.removed.chargePointId = wsId[last.ws]

\* C8: after the close of a session has been handled, no pending request
\* tracked for that session remains in the table.
C8_ClosedSessionHasNoPending ==
    \A i \in DOMAIN reqs :
        (reqs[i].tracked /\ readyState[reqs[i].ws] = "CLOSED")
        => pendingRequests[reqs[i].id] = NoPending


\* the text is a CallResult or CallError frame
IsReply(text) ==
    LET parsed == JSONparse(text)
    IN  /\ parsed.ok /\ IsArray(parsed.value) /\ Len(parsed.value.arr) >= 2
        /\ At(parsed.value, 0) \in {Num(CALLRESULT), Num(CALLERROR)}

\* the message id of the frame has an entry in the correlation table
Matches(text) ==
    \E m \in PendingIds : At(JSONparse(text).value, 1) = Str(m)

\* C7: a step that receives a CallResult or CallError whose message id
\* matches no pending entry leaves the correlation table unchanged, keeps
\* every session registered and open, and writes no frame to any connection.
C7_StrayReplyIgnored ==
    [][ (last'.op = "message" /\ IsReply(last'.text) /\ ~Matches(last'.text))
        => /\ pendingRequests' = pendingRequests
           /\ clients' = clients
           /\ readyState' = readyState
           /\ sent' = sent ]_vars

\* a stray reply has just been received by the build that keeps a
\* correlation table, on a registered open session, while a request of the
\* gateway is pending
C7_Witness ==
    /\ build = "p000"
    /\ last.op = "message" /\ IsReply(last.text) /\ ~Matches(last.text)
    /\ PendingIds # {}
    /\ Live(last.ws) /\ clients[wsId[last.ws]] = last.ws

----------------------------------------------------------------------------
(* Replies to the charge point. *)

BootCall ==
    JSONstringify(Arr(<<Num(CALL), Str("abc"), Str("BootNotification"), EmptyObj>>))

UnknownCall ==
    JSONstringify(Arr(<<Num(CALL), Str("def"), Str("FooBarUnknownAction"), EmptyObj>>))

\* the handler of the Call frame text has run to its end on session last.ws
Handled(text) ==
    /\ last.text = text
    /\ \/ build \in {"p003", "node"} /\ last.op = "message"
       \/ build = "deno" /\ last.op = "resume"

\* the text is a CallResult for message id m that accepts a boot: status
\* Accepted, a current time and a heartbeat interval
IsBootAccepted(text, m) ==
    LET parsed == JSONparse(text)
        payload == At(parsed.value, 2)
    IN  /\ parsed.ok /\ IsArray(parsed.value) /\ Len(parsed.value.arr) = 3
        /\ At(parsed.value, 0) = Num(CALLRESULT)
        /\ At(parsed.value, 1) = m
        /\ HasField(payload, "status") /\ payload.obj.status = Str("Accepted")
        /\ HasField(payload, "currentTime")
        /\ HasField(payload, "interval")

\* the boot of session c was acknowledged
Ready(c) == \E i \in DOMAIN sent[c] : IsBootAccepted(sent[c][i], Str("abc"))

\* C9: when the handler of a BootNotification Call with message id m has run
\* on an open registered session, exactly one frame was written in reply, a
\* CallResult with id m, status Accepted, a current time and an interval,
\* and the session is Ready.
C9_BootAccepted ==
    (Handled(BootCall) /\ Live(last.ws))
    => /\ Len(last.wrote) = 1
       /\ IsBootAccepted(last.wrote[1], Str("abc"))
       /\ Ready(last.ws)

\* C10: the reply to a Call whose action has no handler is the CallError
\* [4, messageId, "NotImplemented", "Action <action> not supported", {}],
\* never a CallResult.
C10_UnknownActionNotImplemented ==
    (Handled(UnknownCall) /\ Live(last.ws))
    => last.wrote =
          <<JSONstringify(Arr(<<Num(CALLERROR), Str("def"), Str("NotImplemented"),
                                Str("Action FooBarUnknownAction not supported"),
                                EmptyObj>>))>>

----------------------------------------------------------------------------
(* Commands and the boot handshake. *)

\* the step just taken wrote a Call the gateway originated (an operator's
\* command or a queued command) to connection last.ws
CommandWritten ==
    last.op \in {"send", "open", "update"} /\ last.wrote # <<>>

\* C11: while the boot of a session has not been acknowledged, no
\* gateway-originated command Call is written to its connection.
C11_NoCommandBeforeBoot ==
    CommandWritten => Ready(last.ws)

\* the message ids crypto.randomUUID() gives; only the flush of queued
\* commands draws them
Uuids == {"uuid-" \o ToString(n) : n \in 0..(MaxSteps + 1)}

\* the text is the Call frame the flush builds for log i
IsFlushFrame(text, i) ==
    LET parsed == JSONparse(text)
    IN  /\ parsed.ok /\ IsArray(parsed.value) /\ Len(parsed.value.arr) = 4
        /\ At(parsed.value, 0) = Num(CALL)
        /\ \E u \in Uuids : At(parsed.value, 1) = Str(u)
        /\ At(parsed.value, 2) = ocppLog[i].message_type

\* the places (connection, position) where a frame of log i was written
FlushFrames(i) ==
    {p \in Conns \X (1..MaxSteps) :
        p[2] \in DOMAIN sent[p[1]] /\ IsFlushFrame(sent[p[1]][p[2]], i)}

\* the identity of log i has an open session whose boot was acknowledged
BootedFor(i) ==
    \E c \in Conns : Live(c) /\ Ready(c) /\ wsId[c] = ocppLog[i].charger_id

\* C12: a command queued for an identity is sent as exactly one Call frame:
\* never two, whatever connections the identity makes, never zero once the
\* session is booted and the gateway idle, and its message id is put in the
\* correlation table when the frame is sent.
C12_QueuedCommandSentOnce ==
    /\ \A i \in DOMAIN ocppLog :
          /\ Cardinality(FlushFrames(i)) <= 1
          /\ (Idle /\ BootedFor(i)) => Cardinality(FlushFrames(i)) = 1
    /\ \A j \in DOMAIN reqs : reqs[j].id \in Uuids => reqs[j].tracked

----------------------------------------------------------------------------
(* The flush of queued commands. *)

\* the log whose frame the text is
LogOf(text) == CHOOSE i \in DOMAIN ocppLog : IsFlushFrame(text, i)

IsFlushed(text) == \E i \in DOMAIN ocppLog : IsFlushFrame(text, i)

\* the positions of connection c that hold frames of queued commands
FlushedAt(c) == {k \in DOMAIN sent[c] : IsFlushed(sent[c][k])}

----------------------------------------------------------------------------
(* The ping watchdog. *)

\* session c is open and the watchdog has run this many times since a
\* frame last arrived from it: more than two runs span two whole intervals
Silent(c) == accepted[c] /\ quiet[c] > 2

\* C14: with the watchdog running, a session from which nothing was
\* received for two consecutive watchdog intervals is evicted: its
\* connection is no longer open and the registry no longer maps its
\* identity to it.
C14_SilentSessionEvicted ==
    enablePing =>
        \A c \in Conns : Silent(c) => (~Open(c) /\ clients[wsId[c]] # c)

\* C15: the watchdog evicts a session only if no frame of any type arrived
\* from it since the watchdog's previous run; a session that delivers a
\* message between every two runs is never evicted, pong or no pong.
C15_AnyFrameKeepsAlive ==
    last.op = "watchdog" => \A c \in last.evicted : quiet[c] >= 2

----------------------------------------------------------------------------
(* Replies and the backend. *)

\* the text is a CallResult or CallError frame for message id m
IsReplyTo(text, m) ==
    LET parsed == JSONparse(text)
    IN  /\ parsed.ok /\ IsArray(parsed.value) /\ Len(parsed.value.arr) >= 3
        /\ At(parsed.value, 0) \in {Num(CALLRESULT), Num(CALLERROR)}
        /\ At(parsed.value, 1) = m

\* a reply to message id m was written to connection c
Replied(c, m) == \E i \in DOMAIN sent[c] : IsReplyTo(sent[c][i], m)

\* C16: the step that receives a Call on an open session writes its reply;
\* the reply does not wait for the backend delivery of the message.
C16_ReplyDoesNotWaitForBackend ==
    (last.op = "message" /\ last.text \in CpCalls /\ Live(last.ws))
    => \E i \in DOMAIN last.wrote :
          IsReplyTo(last.wrote[i], At(JSONparse(last.text).value, 1))

\* the handler of a Call with message id last.key has come to its end on
\* connection last.ws, with or without an answer of the backend
CallHandlerDone ==
    /\ last.op \in {"postJson-returns", "postJson-rejects"}
    /\ last.key # Undefined

\* C17: whatever the backend did (answered, failed, or the request was
\* given up), once the handler of a Call has come to its end on a session
\* that is still open, a reply with the Call's message id was written.
C17_CallAlwaysAnswered ==
    (CallHandlerDone /\ Live(last.ws) /\ ~crashed) => Replied(last.ws, last.key)

----------------------------------------------------------------------------
(* Forwarding to the backend. *)

\* C18: the number of backend deliveries in flight never exceeds a fixed
\* limit, however many messages arrive while the backend does not answer
\* (no message waits in a queue: a delivery starts when its message
\* arrives).  The limit checked is the largest one a behaviour of MaxSteps
\* steps can exceed.
C18_DeliveriesBounded ==
    InFlight <= MaxSteps - 1

\* a backend delivery failed in the step just taken: a network error, a
\* status that is not ok, or a timeout
DeliveryFailed ==
    last.op \in {"delivery-failed", "delivery-timeout", "postJson-rejects"}

\* C19: a step in which a backend delivery fails leaves the gateway
\* running, every connection as it was, the registry, the correlation
\* table and the queued commands unchanged, and when the delivery was
\* consulted for the reply to a Call on an open session, the reply is sent.
C19_DeliveryFailureIsolated ==
    [][ DeliveryFailed' =>
          /\ ~crashed'
          /\ readyState' = readyState
          /\ clients' = clients
          /\ pendingRequests' = pendingRequests
          /\ ocppLog' = ocppLog
          /\ (last'.key # Undefined /\ Live(last'.ws))
                => \E i \in DOMAIN sent'[last'.ws] :
                      IsReplyTo(sent'[last'.ws][i], last'.key) ]_vars

\* C20: a message gets at most one delivery attempt, a failed attempt is
\* not repeated, and no attempt is in flight for longer than the delivery
\* timeout.
C20_DeliveryAttemptTerminates ==
    /\ last.op = "message" => last.fwd <= 1
    /\ DeliveryFailed => last.fwd = 0
    /\ \A t \in StartTimes : now - t <= DeliveryTimeout

----------------------------------------------------------------------------
(* Malformed frames. *)

\* the text is not JSON, not an array, has fewer than 3 elements, or has a
\* message type other than 2, 3 and 4
Malformed(text) ==
    LET parsed == JSONparse(text)
    IN  \/ ~parsed.ok
        \/ ~IsArray(parsed.value)
        \/ Len(parsed.value.arr) < 3
        \/ At(parsed.value, 0) \notin {Num(CALL), Num(CALLRESULT), Num(CALLERROR)}

\* C21: a step that receives a malformed frame writes no frame to any
\* connection, hands nothing to backend forwarding, and leaves every
\* session open and registered.
C21_MalformedFrameDropped ==
    [][ (last'.op = "message" /\ Malformed(last'.text))
        => /\ sent' = sent
           /\ last'.fwd = 0
           /\ deliveries' = deliveries
           /\ tasks' = tasks
           /\ readyState' = readyState
           /\ clients' = clients ]_vars

\* C22: a session is closed by the gateway once its decode errors exceed
\* the threshold.  Checked for the threshold 1: when a malformed frame
\* arrives on a session right after another malformed frame arrived on it,
\* the session does not stay open.
C22_GarbageDisconnects ==
    [][ ( /\ last.op = "message" /\ Malformed(last.text)
          /\ last'.op = "message" /\ Malformed(last'.text)
          /\ last'.ws = last.ws )
        => readyState'[last'.ws] # "OPEN" ]_vars

----------------------------------------------------------------------------
(* Order of replies. *)

\* the suspended handler of a Call received on connection c
CallTask(task) == task.kind \in {"call", "message"}

\* C23: replies leave in arrival order: the handler that writes its reply
\* in a step is the one of the oldest Call still being handled on that
\* connection.
C23_RepliesInArrivalOrder ==
    [][ \A task \in tasks :
          ( /\ CallTask(task) /\ task \notin tasks'
            /\ sent'[task.ws] # sent[task.ws] )
          => \A other \in tasks :
                (CallTask(other) /\ other.ws = task.ws) => other.seq >= task.seq ]_vars

----------------------------------------------------------------------------
(* Commands. *)

\* C24: on any session at most one gateway-originated Call is awaiting its
\* reply: no two Calls written to one connection are waiting together.
C24_SingleOutstandingCall ==
    \A i, j \in DOMAIN reqs :
        (i # j /\ Waiting(i) /\ Waiting(j) /\ reqs[i].written /\ reqs[j].written)
        => reqs[i].ws # reqs[j].ws


\* text is a Call frame carrying message id m
IsCallWithId(text, m) ==
    LET parsed == JSONparse(text)
    IN  /\ parsed.ok /\ IsArray(parsed.value) /\ Len(parsed.value.arr) >= 3
        /\ At(parsed.value, 0) = Num(CALL)
        /\ At(parsed.value, 1) = m

\* C25: a command submitted for an identity without a registered open
\* session is answered with the offline error and leaves every connection,
\* the id space and the pending table as they were; a submission answered
\* with a message id was made for a registered open session and that id is
\* the id of the Call frame the submission wrote to that session.
C25_OfflineCommandRefused ==
    [][ /\ last'.op = "send-offline"
           => /\ sent' = sent /\ reqs' = reqs /\ pendingRequests' = pendingRequests
              /\ last'.key = Undefined /\ last'.wrote = <<>>
        /\ last'.op = "send"
           => /\ Open(last'.ws) /\ clients[wsId[last'.ws]] = last'.ws
              /\ last'.key # Undefined
              /\ Len(sent'[last'.ws]) = Len(sent[last'.ws]) + 1
              /\ IsCallWithId(sent'[last'.ws][Len(sent'[last'.ws])], last'.key)
              /\ \A c \in Conns : c # last'.ws => sent'[c] = sent[c] ]_vars

\* C26: a command submission is answered with a message id only when its
\* Call frame was written to the connection: the frame carrying the returned
\* id is on the connection the submission names, and every message id
\* the safeSend endpoint has handed to a caller belongs to a written frame.
C26_SuccessMeansWritten ==
    /\ last.op = "send"
       => /\ last.key # Undefined
          /\ \E i \in DOMAIN sent[last.ws] : IsCallWithId(sent[last.ws][i], last.key)
    /\ build = "p003"
       => \A i \in DOMAIN reqs :
             /\ reqs[i].written
             /\ \E k \in DOMAIN sent[reqs[i].ws] :
                   IsCallWithId(sent[reqs[i].ws][k], Str(reqs[i].id))


C28_HandlerNeverRaises ==
    /\ last.op \notin {"postJson-rejects", "unhandled-rejection"}
    /\ ~crashed


\* C29: every message of a session is submitted for forwarding exactly once:
\* a step that receives a frame or accepts a command starts one delivery for
\* the inbound frame when it is well formed, and one for each frame the step
\* writes to the charge point.
C29_EveryMessageRelayed ==
    last.op \in {"message", "send"}
    => last.fwd = (IF last.op = "message" /\ ~Malformed(last.text) THEN 1 ELSE 0)
                  + Len(last.wrote)


\* C30: closing a session cancels no forwarding already accepted: the step
\* that closes and unregisters a session leaves every delivery in flight in
\* flight, and a delivery only leaves the set in flight by coming to its own
\* end (delivered, failed or timed out), also after the close.
C30_CloseKeepsForwarding ==
    [][ /\ last'.op = "close"
           => \A t \in DOMAIN deliveries : deliveries'[t] >= deliveries[t]
        /\ \A t \in DOMAIN deliveries :
              deliveries'[t] < deliveries[t]
              => last'.op \in {"delivered", "delivery-failed", "delivery-timeout"} ]_vars

\* the only session there has been received a Call, was closed and
\* unregistered, and a delivery started while it was open has ended since,
\* with others still in flight
C30_Witness ==
    /\ build = "p003" /\ nextWs = 1
    /\ accepted[1] /\ readyState[1] = "CLOSED" /\ clients[wsId[1]] = 0
    /\ sent[1] # <<>>
    /\ last.op = "delivered"
    /\ InFlight = 2


----------------------------------------------------------------------------
(* The codec. *)

----------------------------------------------------------------------------
(* Replies. *)

\* text is a CallResult or CallError frame
IsReplyFrame(text) ==
    LET parsed == JSONparse(text)
    IN  parsed.ok /\ IsArray(parsed.value)
        /\ At(parsed.value, 0) \in {Num(CALLRESULT), Num(CALLERROR)}

\* the positions of connection c written in the step just taken that hold a
\* reply frame
NewReplies(c) ==
    {i \in (Len(sent[c]) + 1)..Len(sent'[c]) : IsReplyFrame(sent'[c][i])}

\* C32: a step writes at most one reply frame, and only to the connection of
\* the frame it handles; that frame is then a Call and the reply carries its
\* message id (JSON writes an id that is missing as null); a step that
\* handles a CallResult or CallError writes no reply frame.
C32_OneReplyPerCall ==
    [][ \A c \in Conns :
          /\ Cardinality(NewReplies(c)) <= 1
          /\ \A i \in NewReplies(c) :
                LET call == JSONparse(last'.text)
                    reply == JSONparse(sent'[c][i]).value
                IN  /\ c = last'.ws
                    /\ call.ok /\ IsArray(call.value)
                    /\ At(call.value, 0) = Num(CALL)
                    /\ At(reply, 1) = Nullish(At(call.value, 1), Null) ]_vars

\* a Call was answered with a CallError, on a connection that had already
\* been written to
C32_Witness ==
    /\ last.op \in {"message", "resume"}
    /\ Len(last.wrote) = 1
    /\ At(JSONparse(last.wrote[1]).value, 0) = Num(CALLERROR)
    /\ Len(sent[last.ws]) >= 2


----------------------------------------------------------------------------
(* Admission of connections. *)

\* connection c has been made and has no valid identity after the step: the
\* gateway refused it before it recorded an identity, or its identity is
\* UNKNOWN
InvalidAfter(c) == readyState'[c] # "NONE" /\ wsId'[c] \in {"none", "UNKNOWN"}

\* C33: a connection without a valid identity or without the ocpp1.6
\* subprotocol is closed by the gateway and is never registered, never
\* served and never written to, and neither its arrival nor its close
\* changes the registry.
C33_InvalidNeverServed ==
    [][ /\ clients'["UNKNOWN"] = 0
        /\ \A c \in Conns :
              InvalidAfter(c) => /\ ~accepted'[c]
                                 /\ readyState'[c] \in {"CLOSING", "CLOSED"}
                                 /\ sent'[c] = <<>>
        /\ (last'.op \in {"connection", "close"} /\ InvalidAfter(last'.ws))
              => clients' = clients ]_vars


\* C34: a connection whose client offered ocpp1.6 has negotiated ocpp1.6,
\* wherever it stood among the protocols offered; a connection whose client
\* did not offer it is open only when the gateway does not require the
\* subprotocol.
C34_SubprotocolNegotiation ==
    \A c \in Conns :
        handshake[c] # NoHandshake
        => /\ Includes(handshake[c].offered, "ocpp1.6")
              => handshake[c].protocol = "ocpp1.6"
           /\ (~Includes(handshake[c].offered, "ocpp1.6") /\ requireSubprotocol)
              => ~(accepted[c] /\ readyState[c] = "OPEN")


----------------------------------------------------------------------------
(* Heartbeat timers and reported status. *)

\* the sessions the registry holds for their own identity and that are open
RegisteredOpen == {c \in Conns : Live(c) /\ clients[wsId[c]] = c}

\* C35: a heartbeat interval runs only for a session that is still open;
\* whenever every open session is the registered one of its identity, there
\* are as many running intervals as registered open sessions; and a
\* heartbeat is only forwarded for an identity whose registered session is
\* open.
C35_TimersMatchSessions ==
    /\ \A c \in intervals : readyState[c] = "OPEN"
    /\ (\A c \in Conns : Live(c) => c \in RegisteredOpen)
       => Cardinality(intervals) = Cardinality(RegisteredOpen)
    /\ last.op = "heartbeat" => last.ws \in RegisteredOpen


\* C36: the status last reported to the backend for an identity is
\* Available exactly when an open session of that identity exists.
C36_StatusAgreesWithSessions ==
    \A s \in Ids :
        reported[s] # "none"
        => (reported[s] = "Available" <=> \E c \in Conns : Live(c) /\ wsId[c] = s)


----------------------------------------------------------------------------
\* C37: the ping watchdog terminates only a session that has a ping of an
\* earlier tick unanswered: one that answered every ping with a pong, and
\* one that registered since the last tick, are spared; no other step of the
\* gateway takes an open session down, and with ENABLE_PING unset the
\* watchdog never runs
C37_WatchdogSparesAnsweringSessions ==
    [][/\ last'.op = "watchdog"
          => /\ enablePing
             /\ \A c \in last'.evicted : pinged[c]
             /\ last.op \in {"connection", "pong"} => last.ws \notin last'.evicted
       /\ \A c \in Conns :
             readyState[c] = "OPEN" /\ readyState'[c] = "CLOSING"
             => last'.op = "watchdog" /\ c \in last'.evicted]_vars

\* a tick that terminated the silent session 2 and spared session 1, whose
\* pong to the previous tick's ping had come back
C37_Witness ==
    /\ last.op = "watchdog" /\ last.evicted = {2}
    /\ Open(1) /\ accepted[1] /\ clients[wsId[1]] = 1
    /\ pinged[1] /\ isAlive[2] = FALSE


----------------------------------------------------------------------------
\* C38: a Call frame without a fourth element is decoded as a Call with its
\* id, its action and payload {} by both handlers, and a CallError frame
\* without a fifth element as a CallError with its id, code, description
\* and errorDetails {} by the handler of server.js; neither is rejected
C38_OptionalFieldsDefaultEmpty ==
    codec.stage = "handled" =>
        LET parsed == JSONparse(codec.text)
            msg == parsed.value
        IN  parsed.ok /\ IsArray(msg) =>
               /\ At(msg, 0) = Num(CALL) /\ Len(msg.arr) = 3
                  => codec.out = [kind |-> "Call", messageId |-> msg.arr[2],
                                  action |-> msg.arr[3], payload |-> EmptyObj]
               /\ At(msg, 0) = Num(CALLERROR) /\ Len(msg.arr) = 4 /\ codec.by = "node"
                  => codec.out = [kind |-> "CallError", messageId |-> msg.arr[2],
                                  errorCode |-> msg.arr[3], errorDescription |-> msg.arr[4],
                                  errorDetails |-> EmptyObj]

\* the handler of server.js has decoded a CallError frame of four elements
C38_Witness ==
    /\ codec.stage = "handled" /\ codec.by = "node"
    /\ codec.text = JSONstringify(Arr(<<Num(CALLERROR), Str("abc"), Str("InternalError"),
                                        Str("")>>))
    /\ codec.out.kind = "CallError" /\ codec.out.errorDetails = EmptyObj


----------------------------------------------------------------------------
\* the steps that serve a command submission
SubmissionOps == {"send", "send-offline", "send-unauthorized"}

\* C39: with API_KEY set, a submission whose x-api-key header is not the
\* key is refused as unauthorized, and the step writes no frame to any
\* connection, allocates no message id and creates no pending request
C39_UnauthorizedHasNoEffect ==
    [][last'.op \in SubmissionOps /\ apiKey # Str("") /\ last'.header # apiKey
       => /\ last'.op = "send-unauthorized"
          /\ last'.wrote = <<>> /\ last'.key = Undefined
          /\ UNCHANGED <<sent, reqs, pendingRequests, tasks>>]_vars

\* a submission with a wrong key was refused while the charge point it
\* named had an open session
C39_Witness ==
    /\ last.op = "send-unauthorized" /\ last.header = Str("wrong")
    /\ apiKey = Str("secret")
    /\ \E c \in Conns : Open(c) /\ accepted[c] /\ clients[wsId[c]] = c

====
